---------------------------- MODULE Spec2Model ----------------------------
(***************************************************************************)
(* Model of the Wine RAG API of src/webapp/main.py: the process            *)
(* environment, the two client handles built at import time, the Auth      *)
(* Gate (verify_api_key), the five routes and the RAG flow (ai_RAG_chat)   *)
(* with its two outbound calls.                                            *)
(*                                                                         *)
(* Python values: None is the out-of-band value None; text is a TLA+       *)
(* string and text is built with \o exactly where the code formats or      *)
(* concatenates.  str(e) of an HTTPException is "<status>: <detail>"       *)
(* (Starlette's HTTPException.__str__), str(e) of any other exception is   *)
(* its message.                                                            *)
(*                                                                         *)
(* Scheduling: one event loop.  Every handler is an `async def` whose body *)
(* calls the synchronous ai_RAG_chat, and verify_api_key awaits nothing,   *)
(* so once a request is read its dependency and its handler run to the     *)
(* answer without yielding: one action per route.  Requests interleave     *)
(* only between being read (Receive) and being handled.                    *)
(***************************************************************************)
EXTENDS Naturals, Sequences, FiniteSets, TLC

\* ------------------------------------------------------------------ bounds
MaxRequests == 2    \* requests served in one behaviour
MaxResults == 2     \* length of the longest result sequence the index returns

\* ------------------------------------------------------- program constants
TOP == 20                       \* search(top=20)
HTTP_200_OK == 200
HTTP_401_UNAUTHORIZED == 401
HTTP_500_INTERNAL == 500

\* --------------------------------------------------------------- universes
None == "<None>"

Requests == 1..MaxRequests

Routes == {"/", "/health", "/ask", "/chat", "/ask-public"}
GetRoutes == {"/", "/health"}
PostRoutes == {"/ask", "/chat", "/ask-public"}

\* X-API-Key header values a caller may send (None: header absent).
HeaderValues == {None, "", "Key", "key"}
\* ChatRequest.message values; the empty message is passed through unvalidated.
Messages == {"What is the best Cabernet Sauvignon?", ""}

EnvNames == {"API_KEY", "OPENAI_API_KEY", "SEARCH_SERVICE_NAME",
             "SEARCH_API_KEY", "SEARCH_INDEX_NAME"}

\* Documents of the external index (the `content` field of a SearchResult).
Contents == {"Wine A: bold and fruity", "Wine B: dry and oaky"}

RECURSIVE SeqsUpTo(_, _)
SeqsUpTo(S, n) ==
    IF n = 0 THEN {<<>>}
    ELSE LET shorter == SeqsUpTo(S, n - 1)
         IN  shorter \cup {Append(s, x) : s \in shorter, x \in S}

Min(a, b) == IF a <= b THEN a ELSE b

VARIABLES
    env,                 \* os.environ of the process, fixed for its lifetime
    ctor_raises,         \* whether a client constructor raises in this deployment
    openai_client,       \* module global: the handle, or None
    search_client,       \* module global: the handle, or None
    search_service,      \* behaviour of the external index, per query text
    completion_service,  \* behaviour of the external model, per user question
    req                  \* per request: position, inputs, locals, answer

vars == <<env, ctor_raises, openai_client, search_client, search_service,
          completion_service, req>>


\* ------------------------------------------------------------ Python idioms
\* Truth value of an Optional[str]: None and "" are falsy.
Truthy(v) == v # None /\ v # ""

\* os.getenv(name): the value, or None when the variable is unset.
getenv(e, name) == e[name]

\* os.getenv(name, default): the default only when the variable is unset;
\* a variable set to "" yields "".
getenv_default(e, name, default) == IF e[name] = None THEN default ELSE e[name]

\* An exception: HTTPException(status_code, detail) or any other Exception(msg).
HTTPException(status_code, detail) ==
    [kind |-> "HTTPException", status_code |-> status_code, detail |-> detail]
Exception(msg) ==
    [kind |-> "Exception", status_code |-> 0, detail |-> msg]

StatusText(n) ==
    CASE n = HTTP_200_OK -> "200"
      [] n = HTTP_401_UNAUTHORIZED -> "401"
      [] n = HTTP_500_INTERNAL -> "500"

\* str(e): "<status_code>: <detail>" for an HTTPException, the message otherwise.
str_exc(e) ==
    IF e.kind = "HTTPException"
    THEN StatusText(e.status_code) \o ": " \o e.detail
    ELSE e.detail

\* repr of one search result, a mapping with the selected field `content`.
repr_result(r) == "{'content': '" \o r.content \o "'}"

\* str(list): "[" + ", ".join(repr(x)) + "]".
RECURSIVE join_results(_)
join_results(rs) ==
    IF Len(rs) = 0 THEN ""
    ELSE IF Len(rs) = 1 THEN repr_result(rs[1])
    ELSE repr_result(rs[1]) \o ", " \o join_results(Tail(rs))

str_list(rs) == "[" \o join_results(rs) \o "]"

\* ------------------------------------------------------------ HTTP answers
\* The answer FastAPI sends for a raised HTTPException.
ErrorResponse(e, www_authenticate) ==
    [status |-> e.status_code,
     body |-> [detail |-> e.detail],
     www_authenticate |-> www_authenticate]

\* The answer for a returned value (status 200).
OkResponse(body) ==
    [status |-> HTTP_200_OK, body |-> body, www_authenticate |-> None]

NoResponse == [status |-> 0, body |-> [detail |-> None], www_authenticate |-> None]

\* ---------------------------------------------------------------- Auth Gate
\* verify_api_key: TRUE to allow, otherwise the HTTPException it raises.
RaiseInvalidKey ==
    [allow |-> FALSE,
     exc |-> HTTPException(HTTP_401_UNAUTHORIZED,
                           "Invalid or missing API key. Include X-API-Key header."),
     www_authenticate |-> "ApiKey"]

Allow == [allow |-> TRUE, exc |-> Exception(""), www_authenticate |-> None]

\* Mutant: the gate only checks that a header is present.
verify_api_key_presence_only(e, x_api_key) ==
    LET expected_api_key == getenv(e, "API_KEY")
    IN  IF ~Truthy(expected_api_key) THEN Allow
        ELSE IF ~Truthy(x_api_key) THEN RaiseInvalidKey
             ELSE Allow

\* Mutant: the gate is skipped only when API_KEY is unset (`is None`), so an
\* empty API_KEY counts as a configured secret.
verify_api_key_unset_only(e, x_api_key) ==
    LET expected_api_key == getenv(e, "API_KEY")
    IN  IF expected_api_key = None THEN Allow
        ELSE IF ~Truthy(x_api_key) \/ x_api_key # expected_api_key
             THEN RaiseInvalidKey
             ELSE Allow

verify_api_key(e, x_api_key) ==
    LET expected_api_key == getenv(e, "API_KEY")
    IN  IF ~Truthy(expected_api_key) THEN Allow
        ELSE IF ~Truthy(x_api_key) \/ x_api_key # expected_api_key
             THEN RaiseInvalidKey
             ELSE Allow

\* Mutant: the dependency is declared on the application, so on every route.
EveryRouteProtected == Routes

\* Routes declared with dependencies=[Depends(verify_api_key)].
ProtectedRoutes == {"/ask", "/chat"}

\* ------------------------------------------------------- startup of clients
OpenAIHandle == "OpenAI"
SearchHandle == "SearchClient"

\* initialize_clients: the pair of handles, or the exception it re-raises.
\* raises: whether a client constructor raises for this configuration.
initialize_clients(e, raises) ==
    LET api_key == getenv(e, "OPENAI_API_KEY")
        search_api_key == getenv(e, "SEARCH_API_KEY")
    IN  IF ~(Truthy(api_key) /\ Truthy(search_api_key))
        THEN [ok |-> FALSE, client |-> None, search_client |-> None,
              exc |-> Exception("Missing required environment variables")]
        ELSE IF raises
        THEN [ok |-> FALSE, client |-> None, search_client |-> None,
              exc |-> Exception("client construction failed")]
        ELSE [ok |-> TRUE, client |-> OpenAIHandle, search_client |-> SearchHandle,
              exc |-> Exception("")]

\* Mutant: the OpenAI client is kept whenever its key is set, whatever
\* happened to the rest of the initialization.
startup_clients_partial(e, raises) ==
    LET r == initialize_clients(e, raises)
    IN  IF r.ok THEN <<r.client, r.search_client>>
        ELSE IF Truthy(getenv(e, "OPENAI_API_KEY")) THEN <<OpenAIHandle, None>>
        ELSE <<None, None>>

\* Module-level startup: the globals after `try: ... except: None, None`.
startup_clients(e, raises) ==
    LET r == initialize_clients(e, raises)
    IN  IF r.ok THEN <<r.client, r.search_client>> ELSE <<None, None>>

\* ------------------------------------------------------------- GET handlers
root(e) ==
    OkResponse([message |-> "Secure Wine RAG API is running with HTTPS/SSL!",
                status |-> "healthy",
                api_authentication |->
                    IF Truthy(getenv(e, "API_KEY")) THEN "enabled" ELSE "disabled"])

\* Mutant: SEARCH_API_KEY is reported like SEARCH_SERVICE_NAME, by value.
health_environment_echo_key(e) ==
    [OPENAI_API_KEY |-> IF Truthy(getenv(e, "OPENAI_API_KEY")) THEN "set" ELSE "missing",
     SEARCH_SERVICE_NAME |-> getenv_default(e, "SEARCH_SERVICE_NAME", "not set"),
     SEARCH_API_KEY |-> getenv_default(e, "SEARCH_API_KEY", "missing"),
     SEARCH_INDEX_NAME |-> getenv_default(e, "SEARCH_INDEX_NAME", "not set"),
     API_KEY_CONFIGURED |-> IF Truthy(getenv(e, "API_KEY")) THEN "yes" ELSE "no"]

\* Mutant: API_KEY is reported by value.
health_environment_echo_secret(e) ==
    [OPENAI_API_KEY |-> IF Truthy(getenv(e, "OPENAI_API_KEY")) THEN "set" ELSE "missing",
     SEARCH_SERVICE_NAME |-> getenv_default(e, "SEARCH_SERVICE_NAME", "not set"),
     SEARCH_API_KEY |-> IF Truthy(getenv(e, "SEARCH_API_KEY")) THEN "set" ELSE "missing",
     SEARCH_INDEX_NAME |-> getenv_default(e, "SEARCH_INDEX_NAME", "not set"),
     API_KEY_CONFIGURED |-> getenv_default(e, "API_KEY", "no")]

health_environment(e) ==
    [OPENAI_API_KEY |-> IF Truthy(getenv(e, "OPENAI_API_KEY")) THEN "set" ELSE "missing",
     SEARCH_SERVICE_NAME |-> getenv_default(e, "SEARCH_SERVICE_NAME", "not set"),
     SEARCH_API_KEY |-> IF Truthy(getenv(e, "SEARCH_API_KEY")) THEN "set" ELSE "missing",
     SEARCH_INDEX_NAME |-> getenv_default(e, "SEARCH_INDEX_NAME", "not set"),
     API_KEY_CONFIGURED |-> IF Truthy(getenv(e, "API_KEY")) THEN "yes" ELSE "no"]

health_check(e, oc, sc) ==
    OkResponse([status |-> "healthy",
                security_status |-> "HTTPS/SSL Enabled by Azure Container Apps",
                hsts_enabled |-> TRUE,
                openai_client |-> IF oc # None THEN "initialized" ELSE "failed",
                search_client |-> IF sc # None THEN "initialized" ELSE "failed",
                environment |-> health_environment(e)])

\* ------------------------------------------------------ external services
\* What the index answers to a query: a result sequence, or an error.
SearchOk(results) == [ok |-> TRUE, results |-> results, error |-> ""]
SearchError(msg) == [ok |-> FALSE, results |-> <<>>, error |-> msg]

\* What the model answers to a prompt: the first choice's content (None when
\* the choice carries no text), or an error.
CompletionOk(content) == [ok |-> TRUE, content |-> content, error |-> ""]
CompletionError(msg) == [ok |-> FALSE, content |-> None, error |-> msg]

SearchResults == {[content |-> c] : c \in Contents}

SearchOutcomes ==
    {SearchOk(rs) : rs \in SeqsUpTo(SearchResults, MaxResults)}
        \cup {SearchError("search service unavailable")}

CompletionOutcomes ==
    {CompletionOk("Try the Cabernet."), CompletionOk(None),
     CompletionError("model quota exceeded")}

\* search_client.search(search_text, top, select=["content"]) and list(...):
\* the service's answer for the text, at most `top` results, in its order.
search(service, search_text, top) ==
    LET o == service[search_text]
    IN  IF o.ok
        THEN SearchOk(SubSeq(o.results, 1, Min(Len(o.results), top)))
        ELSE o

\* openai_client.chat.completions.create(messages=...): the service's answer
\* for the conversation whose user message is messages[2].
create_completion(service, messages) == service[messages[2].content]

\* --------------------------------------------------------------- RAG flow
\* `if not openai_client or not search_client`
clients_missing(oc, sc) == oc = None \/ sc = None

NotInitialized == HTTPException(HTTP_500_INTERNAL, "Clients not properly initialized")

\* `context = str(top_results)`
context_of(top_results) == str_list(top_results)

message_text(user_message, context) ==
    << [role |-> "system",
        content |-> "Assistant is a chatbot that helps you find the best wine for your taste."],
       [role |-> "user", content |-> user_message],
       [role |-> "assistant", content |-> context] >>

\* Mutant: the upstream message is dropped from the error.
rag_except_generic(e) ==
    HTTPException(HTTP_500_INTERNAL, "RAG processing failed")

\* `except Exception as e:` of ai_RAG_chat
rag_except(e) ==
    HTTPException(HTTP_500_INTERNAL, "RAG processing failed: " \o str_exc(e))

\* How a run of ai_RAG_chat ends: it raises exc or returns content; calls are
\* the outbound calls it issued, in order, top_results and messages its locals.
RagRaises(exc, calls, top_results, messages) ==
    [raised |-> TRUE, exc |-> exc, content |-> None, calls |-> calls,
     top_results |-> top_results, message_text |-> messages]
RagReturns(content, calls, top_results, messages) ==
    [raised |-> FALSE, exc |-> Exception(""), content |-> content, calls |-> calls,
     top_results |-> top_results, message_text |-> messages]

\* Mutant: a failed search is treated as an empty result and the completion
\* call is made all the same.
ai_RAG_chat_ignores_search_error(oc, sc, searches, completions, user_message) ==
    IF oc = None \/ sc = None
    THEN RagRaises(HTTPException(HTTP_500_INTERNAL, "Clients not properly initialized"),
                   <<>>, <<>>, <<>>)
    ELSE LET found == search(searches, user_message, TOP)
             top_results == found.results
             messages == message_text(user_message, str_list(top_results))
             completion == create_completion(completions, messages)
             calls == <<"search", "completion">>
         IN  IF ~completion.ok
             THEN RagRaises(HTTPException(HTTP_500_INTERNAL,
                                          "RAG processing failed: " \o completion.error),
                            calls, top_results, messages)
             ELSE RagReturns(completion.content, calls, top_results, messages)

\* ai_RAG_chat(user_message) against the two handles and the two services.
ai_RAG_chat(oc, sc, searches, completions, user_message) ==
    IF clients_missing(oc, sc)
    THEN RagRaises(NotInitialized, <<>>, <<>>, <<>>)
    ELSE LET found == search(searches, user_message, TOP)
         IN  IF ~found.ok
             THEN RagRaises(rag_except(Exception(found.error)),
                            <<"search">>, <<>>, <<>>)
             ELSE LET top_results == found.results
                      context == context_of(top_results)
                      messages == message_text(user_message, context)
                      completion == create_completion(completions, messages)
                      calls == <<"search", "completion">>
                  IN  IF ~completion.ok
                      THEN RagRaises(rag_except(Exception(completion.error)),
                                     calls, top_results, messages)
                      ELSE RagReturns(completion.content, calls, top_results, messages)

\* ChatResponse(response=...): pydantic rejects a value that is not a string.
ChatResponse(response) ==
    IF response = None
    THEN [ok |-> FALSE, value |-> [response |-> ""],
          exc |-> Exception("1 validation error for ChatResponse")]
    ELSE [ok |-> TRUE, value |-> [response |-> response], exc |-> Exception("")]

\* Mutant: the public handler reports the exception's detail, not str(e).
ask_question_public_except_detail(e) == HTTPException(HTTP_500_INTERNAL, e.detail)

\* `except Exception as e:` of ask_question and of ask_question_public
ask_question_except(e) == HTTPException(HTTP_500_INTERNAL, str_exc(e))
ask_question_public_except(e) == HTTPException(HTTP_500_INTERNAL, str_exc(e))

\* ask_question, given how its call of ai_RAG_chat ended: the answer sent.
ask_question(rag) ==
    IF rag.raised
    THEN ErrorResponse(ask_question_except(rag.exc), None)
    ELSE LET model == ChatResponse(rag.content)
         IN  IF model.ok THEN OkResponse(model.value)
             ELSE ErrorResponse(ask_question_except(model.exc), None)

\* chat: `return await ask_question(request)`
chat(rag) == ask_question(rag)

\* ask_question_public, given how its call of ai_RAG_chat ended.
ask_question_public(rag) ==
    IF rag.raised
    THEN ErrorResponse(ask_question_public_except(rag.exc), None)
    ELSE LET model == ChatResponse(rag.content)
         IN  IF model.ok THEN OkResponse(model.value)
             ELSE ErrorResponse(ask_question_public_except(model.exc), None)

\* ------------------------------------------------------------------ state
IdleRequest ==
    [pc |-> "idle", route |-> None, x_api_key |-> None, message |-> None,
     top_results |-> <<>>, message_text |-> <<>>, calls |-> <<>>,
     response |-> NoResponse]

EnvValues(name) ==
    CASE name = "API_KEY" -> {None, "", "Key"}
      [] name = "OPENAI_API_KEY" -> {None, "", "sk-openai-1", "sk-openai-2"}
      [] name = "SEARCH_API_KEY" -> {None, "", "search-key-1", "search-key-2"}
      [] name = "SEARCH_SERVICE_NAME" -> {None, "", "https://wine.search.windows.net"}
      [] name = "SEARCH_INDEX_NAME" -> {None, "wine-index"}

\* A deployment with every variable set.
ConfiguredEnv ==
    [n \in EnvNames |->
        CASE n = "API_KEY" -> "Key"
          [] n = "OPENAI_API_KEY" -> "sk-openai-1"
          [] n = "SEARCH_API_KEY" -> "search-key-1"
          [] n = "SEARCH_SERVICE_NAME" -> "https://wine.search.windows.net"
          [] n = "SEARCH_INDEX_NAME" -> "wine-index"]

SearchServices == [Messages -> SearchOutcomes]

\* The state once the module is imported: environment read, clients built
\* (or both None), no request yet.
InitWith(envs, ctor, searches, completions) ==
    /\ env \in envs
    /\ ctor_raises \in ctor
    /\ openai_client = startup_clients(env, ctor_raises)[1]
    /\ search_client = startup_clients(env, ctor_raises)[2]
    /\ search_service \in searches
    /\ completion_service \in completions
    /\ req = [r \in Requests |-> IdleRequest]

\* ---------------------------------------------------------------- actions
\* The server reads and routes request r: route, X-API-Key header and, for a
\* POST, the JSON body {message}.  Requests are read one at a time and in any
\* number before any of them is handled.  A request here is one the
\* middleware stack passes on (its Host is trusted) and, for a POST, one
\* whose body is a well-formed ChatRequest.
Receive(r) ==
    /\ req[r].pc = "idle"
    /\ \E route \in Routes, x_api_key \in HeaderValues, message \in Messages \cup {None} :
          /\ (route \in GetRoutes) <=> (message = None)
          /\ req' = [req EXCEPT ![r].pc = "routed", ![r].route = route,
                                ![r].x_api_key = x_api_key, ![r].message = message]
    /\ UNCHANGED <<env, ctor_raises, openai_client, search_client, search_service,
                   completion_service>>

\* The dependencies of r's route, solved before its handler is called:
\* Depends(verify_api_key) on a protected route, none elsewhere.
Dependencies(r) ==
    IF req[r].route \in ProtectedRoutes
    THEN verify_api_key(env, req[r].x_api_key)
    ELSE Allow

\* The answer to r: the dependency's exception if one raised (the handler is
\* then not called), else the handler's answer.
Answer(r, v, response) ==
    req' = [req EXCEPT
              ![r].pc = "done",
              ![r].response = IF v.allow THEN response
                              ELSE ErrorResponse(v.exc, v.www_authenticate)]

\* The answer to r on a RAG route, with what ai_RAG_chat did on the way.
AnswerRag(r, v, rag, response) ==
    req' = [req EXCEPT
              ![r].pc = "done",
              ![r].calls = IF v.allow THEN rag.calls ELSE <<>>,
              ![r].top_results = IF v.allow THEN rag.top_results ELSE <<>>,
              ![r].message_text = IF v.allow THEN rag.message_text ELSE <<>>,
              ![r].response = IF v.allow THEN response
                              ELSE ErrorResponse(v.exc, v.www_authenticate)]

\* ai_RAG_chat run for r in the current state.
RagOf(r) ==
    ai_RAG_chat(openai_client, search_client, search_service, completion_service,
                req[r].message)

\* GET /
Root(r) ==
    /\ req[r].pc = "routed"
    /\ req[r].route = "/"
    /\ Answer(r, Dependencies(r), root(env))
    /\ UNCHANGED <<env, ctor_raises, openai_client, search_client, search_service,
                   completion_service>>

\* GET /health
HealthCheck(r) ==
    /\ req[r].pc = "routed"
    /\ req[r].route = "/health"
    /\ Answer(r, Dependencies(r), health_check(env, openai_client, search_client))
    /\ UNCHANGED <<env, ctor_raises, openai_client, search_client, search_service,
                   completion_service>>

\* POST /ask
AskQuestion(r) ==
    /\ req[r].pc = "routed"
    /\ req[r].route = "/ask"
    /\ AnswerRag(r, Dependencies(r), RagOf(r), ask_question(RagOf(r)))
    /\ UNCHANGED <<env, ctor_raises, openai_client, search_client, search_service,
                   completion_service>>

\* POST /chat
Chat(r) ==
    /\ req[r].pc = "routed"
    /\ req[r].route = "/chat"
    /\ AnswerRag(r, Dependencies(r), RagOf(r), chat(RagOf(r)))
    /\ UNCHANGED <<env, ctor_raises, openai_client, search_client, search_service,
                   completion_service>>

\* POST /ask-public
AskQuestionPublic(r) ==
    /\ req[r].pc = "routed"
    /\ req[r].route = "/ask-public"
    /\ AnswerRag(r, Dependencies(r), RagOf(r), ask_question_public(RagOf(r)))
    /\ UNCHANGED <<env, ctor_raises, openai_client, search_client, search_service,
                   completion_service>>

Next ==
    \E r \in Requests :
        \/ Receive(r)
        \/ Root(r)
        \/ HealthCheck(r)
        \/ AskQuestion(r)
        \/ Chat(r)
        \/ AskQuestionPublic(r)

\* ---------------------------------------------------------- specifications
ContentA == "Wine A: bold and fruity"
ContentB == "Wine B: dry and oaky"
Question == "What is the best Cabernet Sauvignon?"

\* One behaviour of healthy services.
HealthySearch == {[m \in Messages |-> SearchOk(<<[content |-> ContentA]>>)]}
HealthyCompletion == {[m \in Messages |-> CompletionOk("Try the Cabernet.")]}

\* Behaviours of the services covering, for one message, every pairing of a
\* search outcome (error, no result, results) with a completion outcome (text,
\* no text, error), and services that treat the two messages differently.
FullResults ==
    [i \in 1..MaxResults |-> [content |-> IF i % 2 = 1 THEN ContentA ELSE ContentB]]

FlowSearch ==
    {[m \in Messages |-> o] :
        o \in {SearchError("search service unavailable"), SearchOk(<<>>),
               SearchOk(FullResults)}}
    \cup {[m \in Messages |-> IF m = Question
                              THEN SearchOk(<<[content |-> ContentB]>>)
                              ELSE SearchError("search service unavailable")]}
FlowCompletion ==
    {[m \in Messages |-> o] : o \in CompletionOutcomes}
    \cup {[m \in Messages |-> IF m = Question
                              THEN CompletionOk("Try the Cabernet.")
                              ELSE CompletionError("model quota exceeded")]}

\* The RAG flow: a configured deployment against the services above, and the
\* same deployment whose client construction raised.
Init ==
    \/ InitWith({ConfiguredEnv}, {FALSE}, FlowSearch, FlowCompletion)
    \/ InitWith({ConfiguredEnv}, {TRUE}, HealthySearch, HealthyCompletion)
Spec == Init /\ [][Next]_vars

\* The Auth Gate: every value of API_KEY, clients built or not.
AuthEnvs ==
    {[ConfiguredEnv EXCEPT !["API_KEY"] = k, !["SEARCH_API_KEY"] = s] :
        k \in EnvValues("API_KEY"), s \in {None, "search-key-1"}}
InitAuth == InitWith(AuthEnvs, {FALSE}, HealthySearch, HealthyCompletion)
SpecAuth == InitAuth /\ [][Next]_vars

\* The two service keys: every value of OPENAI_API_KEY and SEARCH_API_KEY.
KeyEnvs ==
    {[ConfiguredEnv EXCEPT !["OPENAI_API_KEY"] = a, !["SEARCH_API_KEY"] = b] :
        a \in EnvValues("OPENAI_API_KEY"), b \in EnvValues("SEARCH_API_KEY")}
InitKeys == InitWith(KeyEnvs, {FALSE}, HealthySearch, HealthyCompletion)
SpecKeys == InitKeys /\ [][Next]_vars

\* The other variables /health mentions: every value of API_KEY,
\* SEARCH_SERVICE_NAME and SEARCH_INDEX_NAME.
HealthEnvs ==
    {[ConfiguredEnv EXCEPT !["API_KEY"] = k, !["SEARCH_SERVICE_NAME"] = n,
                           !["SEARCH_INDEX_NAME"] = i] :
        k \in EnvValues("API_KEY"), n \in EnvValues("SEARCH_SERVICE_NAME"),
        i \in EnvValues("SEARCH_INDEX_NAME")}
InitHealth == InitWith(HealthEnvs, {FALSE}, HealthySearch, HealthyCompletion)
SpecHealth == InitHealth /\ [][Next]_vars

\* Startup: each key unset, empty or set, and construction raising or not.
StartupEnvs ==
    {[ConfiguredEnv EXCEPT !["OPENAI_API_KEY"] = a, !["SEARCH_API_KEY"] = b] :
        a \in {None, "", "sk-openai-1"}, b \in {None, "", "search-key-1"}}
InitStartup == InitWith(StartupEnvs, BOOLEAN, HealthySearch, HealthyCompletion)
SpecStartup == InitStartup /\ [][Next]_vars

\* Context selection: every result sequence of the index, per message.
InitContext == InitWith({ConfiguredEnv}, {FALSE}, SearchServices, HealthyCompletion)
SpecContext == InitContext /\ [][Next]_vars

\* ==================================================================== claims
Done(r) == req[r].pc = "done"
Status(r) == req[r].response.status
Detail(r) == req[r].response.body.detail

\* What an error detail may put in front of the message it carries.
DetailPrefixes == {"", "500: ", "RAG processing failed: ",
                   "500: RAG processing failed: "}
Carries(detail, msg) == \E p \in DetailPrefixes : detail = p \o msg

\* C1: with a non-empty API_KEY configured, a request to /ask or /chat whose
\* X-API-Key header is absent, empty or not exactly the secret is answered
\* 401 (with the WWW-Authenticate challenge), and one whose header is exactly
\* the secret is never answered 401.
C1_GateRejectsAllButTheSecret ==
    \A r \in Requests :
        (Done(r) /\ req[r].route \in {"/ask", "/chat"} /\ Truthy(env["API_KEY"]))
        => IF req[r].x_api_key = env["API_KEY"]
           THEN Status(r) # HTTP_401_UNAUTHORIZED
           ELSE /\ Status(r) = HTTP_401_UNAUTHORIZED
                /\ req[r].response.www_authenticate = "ApiKey"

C1_Witness ==
    /\ env["API_KEY"] = "Key"
    /\ \E r1, r2 \in Requests :
          /\ Done(r1) /\ req[r1].route = "/ask" /\ req[r1].x_api_key = "key"
          /\ Status(r1) = HTTP_401_UNAUTHORIZED
          /\ Done(r2) /\ req[r2].route = "/ask" /\ req[r2].x_api_key = "Key"
          /\ Status(r2) = HTTP_200_OK

\* C2: with API_KEY unset or empty, no request to /ask or /chat is answered
\* 401, whatever its X-API-Key header, and its handler runs.
C2_GateOpenWithoutSecret ==
    \A r \in Requests :
        (Done(r) /\ req[r].route \in {"/ask", "/chat"} /\ ~Truthy(env["API_KEY"]))
        => /\ Status(r) \in {HTTP_200_OK, HTTP_500_INTERNAL}
           /\ openai_client # None => req[r].calls # <<>>

C2_Witness ==
    /\ env["API_KEY"] = ""
    /\ \E r1, r2 \in Requests :
          /\ Done(r1) /\ req[r1].route = "/ask" /\ req[r1].x_api_key = None
          /\ Status(r1) = HTTP_200_OK
          /\ Done(r2) /\ req[r2].route = "/chat" /\ req[r2].x_api_key = "key"
          /\ Status(r2) = HTTP_200_OK

\* C3: a request to /ask or /chat with the correct secret header gets the
\* same status and the same body as a request to /ask-public with the same
\* message, against the same services and the same client handles.
C3_SecureEqualsPublic ==
    \A r1, r2 \in Requests :
        ( /\ Done(r1) /\ Done(r2)
          /\ req[r1].route \in {"/ask", "/chat"}
          /\ Truthy(env["API_KEY"]) /\ req[r1].x_api_key = env["API_KEY"]
          /\ req[r2].route = "/ask-public"
          /\ req[r1].message = req[r2].message )
        => /\ Status(r1) = Status(r2)
           /\ req[r1].response.body = req[r2].response.body

C3_Witness ==
    \E r1, r2 \in Requests :
        /\ Done(r1) /\ req[r1].route = "/chat" /\ req[r1].x_api_key = env["API_KEY"]
        /\ Done(r2) /\ req[r2].route = "/ask-public"
        /\ req[r1].message = req[r2].message
        /\ Status(r2) = HTTP_500_INTERNAL
        /\ Detail(r2) = "500: RAG processing failed: model quota exceeded"
        /\ req[r1].response = req[r2].response

\* C4: the context in the assistant message is the content of the first
\* search result, or "No relevant documents found." when there is none.
C4_FirstResultPolicy ==
    \A r \in Requests :
        req[r].message_text # <<>>
        => req[r].message_text[3].content =
               IF Len(req[r].top_results) > 0
               THEN req[r].top_results[1].content
               ELSE "No relevant documents found."

\* C5: the /health body reports OPENAI_API_KEY and SEARCH_API_KEY only as
\* "set" or "missing", holds the value of neither, and is the same in every
\* environment that differs only in the values of these two keys, both set.
OtherKeyValues ==
    {[env EXCEPT !["OPENAI_API_KEY"] = a, !["SEARCH_API_KEY"] = b] :
        a \in {v \in EnvValues("OPENAI_API_KEY") : Truthy(v)},
        b \in {v \in EnvValues("SEARCH_API_KEY") : Truthy(v)}}

C5_HealthHidesServiceKeys ==
    \A r \in Requests :
        (Done(r) /\ req[r].route = "/health")
        => LET body == req[r].response.body
               reported == body.environment
           IN  /\ reported.OPENAI_API_KEY =
                      IF Truthy(env["OPENAI_API_KEY"]) THEN "set" ELSE "missing"
               /\ reported.SEARCH_API_KEY =
                      IF Truthy(env["SEARCH_API_KEY"]) THEN "set" ELSE "missing"
               /\ \A k \in {"OPENAI_API_KEY", "SEARCH_API_KEY"} :
                      Truthy(env[k]) =>
                          /\ \A f \in DOMAIN reported : reported[f] # env[k]
                          /\ body.openai_client # env[k]
                          /\ body.search_client # env[k]
                          /\ body.status # env[k]
                          /\ body.security_status # env[k]
               /\ (Truthy(env["OPENAI_API_KEY"]) /\ Truthy(env["SEARCH_API_KEY"]))
                  => \A e2 \in OtherKeyValues :
                         health_check(e2, openai_client, search_client).body = body

C5_Witness ==
    \E r \in Requests :
        /\ Done(r) /\ req[r].route = "/health"
        /\ env["OPENAI_API_KEY"] = "sk-openai-2"
        /\ env["SEARCH_API_KEY"] = "search-key-1"
        /\ req[r].response.body.environment.OPENAI_API_KEY = "set"
        /\ req[r].response.body.environment.SEARCH_API_KEY = "set"

\* C6 as stated: no field of the /health body holds the value of any of the
\* five environment variables it mentions.
C6_HealthEchoesNoValue ==
    \A r \in Requests :
        (Done(r) /\ req[r].route = "/health")
        => \A n \in EnvNames :
               Truthy(env[n]) =>
                   \A f \in DOMAIN req[r].response.body.environment :
                       req[r].response.body.environment[f] # env[n]

\* C6 amended: /health reports OPENAI_API_KEY, SEARCH_API_KEY and API_KEY by
\* presence only ("set"/"missing", "yes"/"no") and never holds their values;
\* SEARCH_SERVICE_NAME and SEARCH_INDEX_NAME are reported by value, "not set"
\* standing for an unset variable.
C6_HealthEchoesOnlyNames ==
    \A r \in Requests :
        (Done(r) /\ req[r].route = "/health")
        => LET reported == req[r].response.body.environment
           IN  /\ reported.OPENAI_API_KEY \in {"set", "missing"}
               /\ reported.SEARCH_API_KEY \in {"set", "missing"}
               /\ reported.API_KEY_CONFIGURED =
                      IF Truthy(env["API_KEY"]) THEN "yes" ELSE "no"
               /\ \A k \in {"OPENAI_API_KEY", "SEARCH_API_KEY", "API_KEY"} :
                      Truthy(env[k]) => \A f \in DOMAIN reported : reported[f] # env[k]
               /\ \A n \in {"SEARCH_SERVICE_NAME", "SEARCH_INDEX_NAME"} :
                      reported[n] = IF env[n] = None THEN "not set" ELSE env[n]

C6_Witness ==
    \E r \in Requests :
        /\ Done(r) /\ req[r].route = "/health"
        /\ env["API_KEY"] = "Key"
        /\ req[r].response.body.environment.API_KEY_CONFIGURED = "yes"
        /\ Truthy(env["SEARCH_SERVICE_NAME"])
        /\ req[r].response.body.environment.SEARCH_SERVICE_NAME
               = env["SEARCH_SERVICE_NAME"]
        /\ env["SEARCH_INDEX_NAME"] = None
        /\ req[r].response.body.environment.SEARCH_INDEX_NAME = "not set"

\* C7: if startup fails (a service key unset or empty, or a constructor
\* raises) both handles are None; every authorized request to /ask, /chat or
\* /ask-public is answered 500 "Clients not properly initialized" with no
\* outbound call; / and /health are answered 200 and /health reports both
\* clients "failed".
StartupFailed ==
    \/ ~Truthy(env["OPENAI_API_KEY"])
    \/ ~Truthy(env["SEARCH_API_KEY"])
    \/ ctor_raises

C7_FailedStartupStillServes ==
    StartupFailed =>
        /\ openai_client = None
        /\ search_client = None
        /\ \A r \in Requests :
              Done(r) =>
                  /\ (req[r].route \in PostRoutes /\ Status(r) # HTTP_401_UNAUTHORIZED)
                     => /\ Status(r) = HTTP_500_INTERNAL
                        /\ Carries(Detail(r), "Clients not properly initialized")
                        /\ req[r].calls = <<>>
                  /\ req[r].route \in GetRoutes => Status(r) = HTTP_200_OK
                  /\ req[r].route = "/health"
                     => /\ req[r].response.body.openai_client = "failed"
                        /\ req[r].response.body.search_client = "failed"

C7_Witness ==
    /\ ctor_raises
    /\ Truthy(env["OPENAI_API_KEY"]) /\ Truthy(env["SEARCH_API_KEY"])
    /\ \E r1, r2 \in Requests :
          /\ Done(r1) /\ req[r1].route = "/ask" /\ req[r1].x_api_key = "Key"
          /\ Status(r1) = HTTP_500_INTERNAL
          /\ Done(r2) /\ req[r2].route = "/health"
          /\ req[r2].response.body.openai_client = "failed"

\* C8: on a RAG route a 200 answer is given only when both the search call
\* and the completion call succeeded, and it holds the completion's text; if
\* either call fails the answer is 500 and its detail carries the upstream
\* error message.
C8_NoPartialFailure ==
    \A r \in Requests :
        (Done(r) /\ req[r].route \in PostRoutes /\ Status(r) # HTTP_401_UNAUTHORIZED)
        => LET found == search_service[req[r].message]
               completion == completion_service[req[r].message]
           IN  /\ Status(r) \in {HTTP_200_OK, HTTP_500_INTERNAL}
               /\ Status(r) = HTTP_200_OK
                  => /\ req[r].calls = <<"search", "completion">>
                     /\ found.ok /\ completion.ok
                     /\ req[r].response.body = [response |-> completion.content]
               /\ (req[r].calls # <<>> /\ ~found.ok)
                  => /\ Status(r) = HTTP_500_INTERNAL
                     /\ Carries(Detail(r), found.error)
               /\ (req[r].calls # <<>> /\ found.ok /\ ~completion.ok)
                  => /\ Status(r) = HTTP_500_INTERNAL
                     /\ Carries(Detail(r), completion.error)

C8_Witness ==
    \E r \in Requests :
        /\ Done(r) /\ req[r].route = "/ask-public"
        /\ search_service[req[r].message].ok
        /\ Len(req[r].top_results) = MaxResults
        /\ ~completion_service[req[r].message].ok
        /\ req[r].calls = <<"search", "completion">>
        /\ Status(r) = HTTP_500_INTERNAL

\* C9: a request issues no call, the search call alone, or the search call
\* and then the completion call, each at most once; the completion call is
\* issued only after a successful search whose results formed the prompt,
\* and a failed search ends the request with no completion call.
C9_CallsSequentialAtMostOnce ==
    \A r \in Requests :
        /\ req[r].calls \in {<<>>, <<"search">>, <<"search", "completion">>}
        /\ req[r].calls # <<>>
           => LET found == search_service[req[r].message]
              IN  /\ req[r].calls = <<"search", "completion">>
                     => /\ found.ok
                        /\ req[r].top_results = found.results
                        /\ Len(req[r].message_text) = 3
                        /\ req[r].message_text[2].content = req[r].message
                  /\ ~found.ok
                     => /\ req[r].calls = <<"search">>
                        /\ req[r].message_text = <<>>
                        /\ Status(r) = HTTP_500_INTERNAL

C9_Witness ==
    \E r1, r2 \in Requests :
        /\ Done(r1) /\ req[r1].calls = <<"search">>
        /\ Status(r1) = HTTP_500_INTERNAL
        /\ Done(r2) /\ req[r2].calls = <<"search", "completion">>
        /\ Status(r2) = HTTP_200_OK

\* C10: a request answered 401 is a request to /ask or /chat (so /, /health
\* and /ask-public are never answered 401, whatever the secret and the
\* header) and it caused no search call and no completion call.
C10_GateBeforeHandlerOnProtectedOnly ==
    \A r \in Requests :
        Status(r) = HTTP_401_UNAUTHORIZED
        => /\ req[r].route \in {"/ask", "/chat"}
           /\ req[r].calls = <<>>
           /\ req[r].top_results = <<>>
           /\ req[r].message_text = <<>>

C10_Witness ==
    /\ env["API_KEY"] = "Key"
    /\ openai_client # None
    /\ \E r1, r2 \in Requests :
          /\ Done(r1) /\ req[r1].route = "/chat" /\ req[r1].x_api_key = None
          /\ Status(r1) = HTTP_401_UNAUTHORIZED /\ req[r1].calls = <<>>
          /\ Done(r2) /\ req[r2].route = "/ask-public" /\ req[r2].x_api_key = "key"
          /\ Status(r2) = HTTP_200_OK /\ req[r2].calls = <<"search", "completion">>

=============================================================================
